---- MODULE Spec2Model ----
(***************************************************************************)
(* Model of the SHL assessment recommendation engine.                      *)
(*                                                                         *)
(*   src/api.py   the /recommend request: get_candidates_from_db           *)
(*                (retrieval) followed by rerank_with_gemini (reranking)   *)
(*   src/test.py  the record normalizers clean_duration, normalize_yes_no  *)
(*                                                                         *)
(* Spec      one /recommend request after another, with the Catalog Store  *)
(*           and the language model as nondeterministic collaborators.     *)
(* SpecNorm  the normalizers applied to raw metadata values.               *)
(* SpecConc  two /recommend requests served at once, their steps           *)
(*           interleaved.                                                  *)
(* SpecLive  Spec with weak fairness of the steps of a running request.    *)
(***************************************************************************)
EXTENDS Integers, Sequences, FiniteSets, TLC

VARIABLES
    hasModel,     \* api.py:22-27  module global `model` is not None
    pc,           \* position of the request inside recommend()
    query,        \* request.query
    storeOut,     \* what collection.query() did for this request
    candidates,   \* local `candidates` of recommend()
    llmOut,       \* what model.generate_content() did for this request
    result,       \* local `ranked_assessments` of recommend()
    status,       \* "none" while running, "ok" (200) or "error" (500)
    dbCalls,      \* collection.query() calls made by this request
    llmCalls,     \* model.generate_content() calls made by this request
    normOp,       \* normalizer last applied ("none" before any)
    normIn,       \* its argument
    ynOut,        \* result of normalize_yes_no
    durOut,       \* result of clean_duration / the api.py duration cast
    ttOut,        \* result of a test-type normalization
    reqs          \* the requests in flight when several are served at once

pipeVars == <<hasModel, pc, query, storeOut, candidates, llmOut, result,
              status, dbCalls, llmCalls>>
normVars == <<normOp, normIn, ynOut, durOut, ttOut>>
vars == <<hasModel, pc, query, storeOut, candidates, llmOut, result,
          status, dbCalls, llmCalls, normOp, normIn, ynOut, durOut, ttOut, reqs>>

----------------------------------------------------------------------------
(* Bounds *)

\* largest number of hits the Catalog Store returns in the model
MaxHits == 12
\* queries are numbered 1..NumQueries
NumQueries == 2
\* model responses enumerate every array of at most this many elements
MaxShort == 3
\* raw metadata strings enumerate every string of at most this many characters
MaxStrLen == 3
\* largest number of hits per request when two requests are served at once
ConcMaxHits == 2

(* Program constants *)

\* recommend() asks for k=25 hits
K == 25
\* slice used when the model is missing
NoModelLimit == 10
\* slice used when the model call or the parse fails
FailLimit == 10
\* slice used when no returned id survives the filter
EmptyLimit == 5

Min(a, b) == IF a < b THEN a ELSE b

Range(s) == {s[i] : i \in 1..Len(s)}

----------------------------------------------------------------------------
(* Raw metadata values *)

\* a Python value: a str (s, a sequence of one-character strings), an int v,
\* a float worth v/2, a bool (v = 1 is True), None, or a missing key
Val(t, s, v) == [t |-> t, s |-> s, v |-> v]
StrV(s) == Val("str", s, 0)
IntV(n) == Val("int", <<>>, n)
FloatV(halves) == Val("float", <<>>, halves)
BoolV(b) == Val("bool", <<>>, b)
NoneV == Val("none", <<>>, 0)
AbsentV == Val("absent", <<>>, 0)

Digits == <<"0", "1", "2", "3", "4", "5", "6", "7", "8", "9">>
UpperLetters == <<"A", "B", "C", "D", "E", "F", "G", "H", "I", "J", "K", "L", "M",
                  "N", "O", "P", "Q", "R", "S", "T", "U", "V", "W", "X", "Y", "Z">>
LowerLetters == <<"a", "b", "c", "d", "e", "f", "g", "h", "i", "j", "k", "l", "m",
                  "n", "o", "p", "q", "r", "s", "t", "u", "v", "w", "x", "y", "z">>

\* the two indicator symbols, each one character
GreenCircle == "<green circle>"
RedCircle == "<red circle>"

IsDigit(c) == \E i \in 1..Len(Digits) : Digits[i] = c
DigitVal(c) == (CHOOSE i \in 1..Len(Digits) : Digits[i] = c) - 1

\* int(ds) for a sequence of digits
RECURSIVE DigitsToInt(_)
DigitsToInt(ds) ==
    IF ds = <<>> THEN 0
    ELSE 10 * DigitsToInt(SubSeq(ds, 1, Len(ds) - 1)) + DigitVal(ds[Len(ds)])

\* str(n) for an int
RECURSIVE NatStr(_)
NatStr(n) ==
    IF n < 10 THEN <<Digits[n + 1]>>
    ELSE NatStr(n \div 10) \o <<Digits[(n % 10) + 1]>>

IntStr(n) == IF n < 0 THEN <<"-">> \o NatStr(0 - n) ELSE NatStr(n)

\* str(value)
PyStr(value) ==
    CASE value.t = "str" -> value.s
      [] value.t = "int" -> IntStr(value.v)
      [] value.t = "float" ->
            (IF value.v < 0 THEN <<"-">> ELSE <<>>)
            \o NatStr((IF value.v < 0 THEN 0 - value.v ELSE value.v) \div 2)
            \o <<".", IF value.v % 2 = 0 THEN "0" ELSE "5">>
      [] value.t = "bool" ->
            IF value.v = 1 THEN <<"T", "r", "u", "e">>
            ELSE <<"F", "a", "l", "s", "e">>
      [] OTHER -> <<"N", "o", "n", "e">>

\* `not value`
Falsy(value) ==
    \/ value.t \in {"none", "absent"}
    \/ value.t = "str" /\ value.s = <<>>
    \/ value.t \in {"int", "float", "bool"} /\ value.v = 0

LowerChar(c) ==
    IF \E i \in 1..Len(UpperLetters) : UpperLetters[i] = c
    THEN LowerLetters[CHOOSE i \in 1..Len(UpperLetters) : UpperLetters[i] = c]
    ELSE c

\* s.lower()
ToLower(s) == [i \in 1..Len(s) |-> LowerChar(s[i])]

\* sub in s
Contains(s, sub) ==
    \E i \in 1..(Len(s) - Len(sub) + 1) : SubSeq(s, i, i + Len(sub) - 1) = sub

----------------------------------------------------------------------------
(* test.py: normalize_yes_no and clean_duration *)

normalize_yes_no(value) ==
    IF Falsy(value) THEN "No"
    ELSE LET val_str == ToLower(PyStr(value))
         IN IF \/ Contains(val_str, <<GreenCircle>>)
               \/ Contains(val_str, <<"y", "e", "s">>)
               \/ Contains(val_str, <<"s", "u", "p", "p", "o", "r", "t", "e", "d">>)
            THEN "Yes"
            ELSE IF \/ Contains(val_str, <<RedCircle>>)
                    \/ Contains(val_str, <<"n", "o">>)
                    \/ Contains(val_str, <<"n", "o", "t", " ", "s", "u", "p", "p",
                                           "o", "r", "t", "e", "d">>)
            THEN "No"
            ELSE "No"

\* re.search(r'(\d+)', s).group(1), or <<>> when nothing matches
FirstDigitRun(s) ==
    LET at == {i \in 1..Len(s) : IsDigit(s[i])}
    IN IF at = {} THEN <<>>
       ELSE LET first == CHOOSE i \in at : \A j \in at : i <= j
                last == CHOOSE j \in first..Len(s) :
                            /\ \A k \in first..j : IsDigit(s[k])
                            /\ (j = Len(s) \/ ~IsDigit(s[j + 1]))
            IN SubSeq(s, first, last)

clean_duration(duration_str) ==
    IF duration_str.t # "str" THEN 0
    ELSE LET match == FirstDigitRun(duration_str.s)
         IN IF match # <<>> THEN DigitsToInt(match) ELSE 0

----------------------------------------------------------------------------
(* api.py: the duration cast of get_candidates_from_db *)

\* s.strip() for the blank the model's strings use
RECURSIVE Strip(_)
Strip(s) ==
    IF s = <<>> THEN s
    ELSE IF Head(s) = " " THEN Strip(Tail(s))
    ELSE IF s[Len(s)] = " " THEN Strip(SubSeq(s, 1, Len(s) - 1))
    ELSE s

\* float(s) for a string of digits, blanks, signs and dots: ok is FALSE when
\* float raises ValueError, and trunc is int(float(s)) otherwise
ParseFloat(s) ==
    LET t == Strip(s)
        signed == t # <<>> /\ Head(t) \in {"-", "+"}
        body == IF signed THEN Tail(t) ELSE t
        dots == {i \in 1..Len(body) : body[i] = "."}
        whole == IF dots = {} THEN body
                 ELSE SubSeq(body, 1, (CHOOSE i \in dots : TRUE) - 1)
        ok == /\ Cardinality(dots) <= 1
              /\ \A i \in 1..Len(body) : IsDigit(body[i]) \/ body[i] = "."
              /\ \E i \in 1..Len(body) : IsDigit(body[i])
        mag == DigitsToInt(whole)
    IN [ok |-> ok,
        trunc |-> IF ~ok THEN 0
                  ELSE IF signed /\ Head(t) = "-" THEN 0 - mag ELSE mag]

\* try: dur = int(float(meta.get('duration', 0)))  except: dur = 0
ApiDurationCast(value) ==
    CASE value.t = "absent" -> 0
      [] value.t = "none" -> 0
      [] value.t \in {"int", "bool"} -> value.v
      [] value.t = "float" ->
            IF value.v < 0 THEN 0 - ((0 - value.v) \div 2) ELSE value.v \div 2
      [] OTHER -> ParseFloat(value.s).trunc

----------------------------------------------------------------------------
(* Test-type lists: test.py clean_json and api.py get_candidates_from_db *)

\* a Python list of strings, held as its length v and its items in s, each
\* followed by the end-of-item mark (a character no item contains)
ItemEnd == "<end of item>"

RECURSIVE Joined(_)
Joined(items) ==
    IF items = <<>> THEN <<>>
    ELSE Head(items) \o <<ItemEnd>> \o Joined(Tail(items))

ListV(items) == Val("list", Joined(items), Len(items))

\* the items of a list value
RECURSIVE ItemsOf(_)
ItemsOf(s) ==
    IF s = <<>> THEN <<>>
    ELSE LET e == CHOOSE i \in 1..Len(s) :
                      s[i] = ItemEnd /\ \A j \in 1..(i - 1) : s[j] # ItemEnd
         IN <<SubSeq(s, 1, e - 1)>> \o ItemsOf(SubSeq(s, e + 1, Len(s)))

Unknown == <<"U", "n", "k", "n", "o", "w", "n">>

\* s.split(','): the pieces between the commas, empty pieces included
RECURSIVE SplitComma(_)
SplitComma(s) ==
    LET commas == {i \in 1..Len(s) : s[i] = ","}
    IN IF commas = {} THEN <<s>>
       ELSE LET c == CHOOSE i \in commas : \A j \in commas : i <= j
            IN <<SubSeq(s, 1, c - 1)>> \o SplitComma(SubSeq(s, c + 1, Len(s)))

\* [t.strip() for t in s.split(',')]
SplitAndStrip(s) ==
    LET parts == SplitComma(s)
    IN [i \in 1..Len(parts) |-> Strip(parts[i])]

\* test.py:67-71, with item.get("test_type", "Unknown") for a missing key
CleanTestTypes(raw) ==
    LET raw_test_type == IF raw.t = "absent" THEN StrV(Unknown) ELSE raw
    IN IF raw_test_type.t = "str" THEN SplitAndStrip(raw_test_type.s)
       ELSE IF raw_test_type.t = "list" THEN ItemsOf(raw_test_type.s)
       ELSE <<Unknown>>

\* api.py:66-70, with meta.get('test_type', "") for a missing key
ApiTestTypes(raw) ==
    LET t_type_raw == IF raw.t = "absent" THEN StrV(<<>>) ELSE raw
    IN IF t_type_raw.t = "str"
       THEN (IF t_type_raw.s # <<>> THEN SplitAndStrip(t_type_raw.s) ELSE <<>>)
       ELSE <<>>

----------------------------------------------------------------------------
(* Catalog Store collaborator *)

Queries == 1..NumQueries

\* catalog document returned as the i-th hit (1-based) of query q; distinct
\* hits are distinct documents, and the two queries hit different documents
DocOf(q, i) == q * 100 + i

\* shapes of one hit: "ok" converts; the others make the conversion raise
\*   meta_none     results['metadatas'][0][i] is None -> meta.get raises
\*   desc_not_str  meta['description'] is a number    -> [:500] raises
\*   doc_none      the document is None and meta has no description, so
\*                 meta.get('description', None)[:500] raises
HitShapes == {"ok", "meta_none", "desc_not_str", "doc_none"}

\* the duration the catalog stores for a document: ingestion (embed.py:71)
\* copies whatever the catalog file holds, a number or a text
CatalogDuration(doc) ==
    CASE doc % 4 = 0 -> IntV(49)
      [] doc % 4 = 1 -> StrV(<<"4", "9">>)
      [] doc % 4 = 2 -> StrV(<<"m", "i", "n", " ", "=", " ", "4", "9">>)
      [] OTHER -> FloatV(61)

\* the test_type text the catalog stores for a document: ingestion joins the
\* record's list with ", " (embed.py:58), which is "" for an empty list
CatalogTestType(doc) ==
    CASE doc % 3 = 0 -> StrV(<<"K", ",", " ", "P">>)
      [] doc % 3 = 1 -> StrV(<<"P">>)
      [] OTHER -> StrV(<<>>)

\* the adaptive_support / remote_support value the catalog stores for a
\* document, in the raw shapes a stored entry may carry: canonical text, an
\* indicator symbol, a boolean, or no value at all
CatalogSupport(doc) ==
    CASE doc % 5 = 0 -> StrV(<<"Y", "e", "s">>)
      [] doc % 5 = 1 -> StrV(<<"N", "o">>)
      [] doc % 5 = 2 -> StrV(<<GreenCircle>>)
      [] doc % 5 = 3 -> BoolV(1)
      [] OTHER -> AbsentV

Hit(q, i, shape) ==
    [doc |-> DocOf(q, i), shape |-> shape,
     duration |-> CatalogDuration(DocOf(q, i)),
     test_type |-> CatalogTestType(DocOf(q, i)),
     adaptive_support |-> CatalogSupport(DocOf(q, i)),
     remote_support |-> CatalogSupport(DocOf(q, i) + 2)]

\* n well-formed hits, except that hit number bad (if any) has shape sh
HitsOf(q, n, bad, sh) ==
    [i \in 1..n |-> Hit(q, i, IF i = bad THEN sh ELSE "ok")]

\* outcomes of collection.query(query_texts=[q], n_results=k)
StoreOutcomes(q, k) ==
    {[kind |-> "raise", hits |-> <<>>], [kind |-> "no_ids", hits |-> <<>>]}
    \cup {[kind |-> "hits", hits |-> HitsOf(q, n, 0, "ok")] :
             n \in 0..Min(k, MaxHits)}
    \cup {[kind |-> "hits", hits |-> HitsOf(q, n, bad, sh)] :
             n \in 1..Min(k, MaxHits), bad \in 1..MaxHits,
             sh \in HitShapes \ {"ok"}}

NoStore == [kind |-> "none", hits |-> <<>>]

----------------------------------------------------------------------------
(* get_candidates_from_db *)

HitRaises(h) == h.shape # "ok"

\* str(meta.get(key, 'No'))
ApiSupport(value) ==
    IF value.t = "absent" THEN <<"N", "o">> ELSE PyStr(value)

Candidate(i, h) ==
    [id |-> i,
     raw_data |-> [assessment_name |-> h.doc,
                   adaptive_support |-> ApiSupport(h.adaptive_support),
                   duration |-> ApiDurationCast(h.duration),
                   remote_support |-> ApiSupport(h.remote_support),
                   test_type |-> ApiTestTypes(h.test_type)]]

\* the hits converted before the first one that raises
ConvertedPrefix(hits) ==
    LET bad == {i \in 1..Len(hits) : HitRaises(hits[i])}
        stop == IF bad = {} THEN Len(hits)
                ELSE (CHOOSE i \in bad : \A j \in bad : i <= j) - 1
    IN [i \in 1..stop |-> Candidate(i - 1, hits[i])]

\* mutant: the except clause returns the candidates built so far
get_candidates_from_db_Partial(so) ==
    IF so.kind \in {"raise", "no_ids"} THEN [raised |-> FALSE, cands |-> <<>>]
    ELSE [raised |-> FALSE, cands |-> ConvertedPrefix(so.hits)]

get_candidates_from_db(so) ==
    IF so.kind = "raise" THEN [raised |-> FALSE, cands |-> <<>>]
    ELSE IF so.kind = "no_ids" THEN [raised |-> FALSE, cands |-> <<>>]
    ELSE IF \E i \in 1..Len(so.hits) : HitRaises(so.hits[i])
         THEN [raised |-> FALSE, cands |-> <<>>]
    ELSE [raised |-> FALSE,
          cands |-> [i \in 1..Len(so.hits) |-> Candidate(i - 1, so.hits[i])]]

----------------------------------------------------------------------------
(* Language-model collaborator *)

\* one element of a JSON array, as json.loads builds it:
\*   int v, float v/2 (so v = 2 is 1.0 and v = 3 is 1.5), bool v (1 is True),
\*   str (the decimal text of v), null
Elem(t, v) == [t |-> t, v |-> v]

\* MaxHits is an id no batch holds: the ids of n hits are 0..n-1
IntElems == {Elem("int", v) : v \in {-1, 0, 1, MaxHits}}
OddElems == {Elem("float", 2), Elem("bool", 1), Elem("str", 1), Elem("null", 0)}
Elems == IntElems \cup OddElems

SeqsUpTo(S, n) == UNION {[1..m -> S] : m \in 0..n}

IntSeq(f) == [i \in DOMAIN f |-> Elem("int", f[i])]

\* a, a+1, .., b   /   b, b-1, .., a   /   len copies of id
Ascending(a, b) == IntSeq([i \in 1..(b - a + 1) |-> a + i - 1])
Descending(a, b) == IntSeq([i \in 1..(b - a + 1) |-> b - i + 1])
Repeated(id, len) == IntSeq([i \in 1..len |-> id])

Arrays ==
    SeqsUpTo(Elems, MaxShort)
    \cup {Ascending(a, b) : a \in 0..1, b \in 0..MaxHits}
    \cup {Descending(a, b) : a \in 0..1, b \in 0..MaxHits}
    \cup {Repeated(0, len) : len \in 1..MaxHits}

\* a parsed JSON value; items is what iterating it yields (the elements of an
\* array, the keys of an object, the characters of a string)
Json(t, items) == [t |-> t, items |-> items]

JsonValues ==
    {Json("array", a) : a \in Arrays}
    \cup {Json("object", <<>>), Json("object", <<Elem("str", 0)>>),
          Json("string", <<Elem("str", 0)>>),
          Json("number", <<>>), Json("null", <<>>), Json("bool", <<>>)}

\* outcomes of model.generate_content(...) followed by response.text:
\*   raise    the call raises (API error, blocked response)
\*   timeout  the client's deadline expires, which raises
\*   nonjson  response.text is not JSON
\*   json     response.text is the JSON text of val
LlmOutcomes ==
    {[kind |-> k, val |-> Json("null", <<>>)] : k \in {"raise", "timeout", "nonjson"}}
    \cup {[kind |-> "json", val |-> v] : v \in JsonValues}

NoLlm == [kind |-> "none", val |-> Json("null", <<>>)]

----------------------------------------------------------------------------
(* rerank_with_gemini *)

\* c['id'] == cid in Python: numbers compare by value across int, float, bool
PyEq(id, e) ==
    CASE e.t = "int" -> e.v = id
      [] e.t = "float" -> e.v = 2 * id
      [] e.t = "bool" -> e.v = id
      [] OTHER -> FALSE

\* [c['raw_data'] for c in candidates[:k]]
TopK(cands, k) == [i \in 1..Min(k, Len(cands)) |-> cands[i].raw_data]

\* mutant: the empty-batch guard is missing
RerankEntry_NoEmptyGuard(cands, model) ==
    IF ~model THEN "nomodel" ELSE "call"

\* what rerank does before the model call: return [] for an empty batch,
\* return the top slice without a model, otherwise call the model
RerankEntry(cands, model) ==
    IF cands = <<>> THEN "empty"
    ELSE IF ~model THEN "nomodel"
    ELSE "call"

\* next((c for c in candidates if c['id'] == cid), None)
Match(cands, cid) ==
    IF \E i \in 1..Len(cands) : PyEq(cands[i].id, cid)
    THEN LET i == CHOOSE i \in 1..Len(cands) :
                    /\ PyEq(cands[i].id, cid)
                    /\ \A j \in 1..(i - 1) : ~PyEq(cands[j].id, cid)
         IN <<cands[i]>>
    ELSE <<>>

\* mutant: the matches are collected in batch order, not in the model's order
FinalResults_BatchOrder(cands, ids) ==
    LET Named(c) == \E i \in 1..Len(ids) : PyEq(c.id, ids[i])
        sel == SelectSeq(cands, Named)
    IN [j \in 1..Len(sel) |-> sel[j].raw_data]

\* the loop over selected_ids
RECURSIVE FinalResults(_, _)
FinalResults(cands, ids) ==
    IF ids = <<>> THEN <<>>
    ELSE LET m == Match(cands, Head(ids))
         IN (IF m # <<>> THEN <<m[1].raw_data>> ELSE <<>>)
            \o FinalResults(cands, Tail(ids))

\* len(selected_ids) raises TypeError
NoLen(val) == val.t \in {"number", "null", "bool"}

\* mutant: a failed call falls back to the narrow slice
RerankResponse_FailTopFive(cands, out) ==
    IF out.kind # "json" THEN [raised |-> FALSE, out |-> TopK(cands, EmptyLimit)]
    ELSE IF NoLen(out.val) THEN [raised |-> FALSE, out |-> TopK(cands, EmptyLimit)]
    ELSE LET final == FinalResults(cands, out.val.items)
         IN IF final = <<>>
            THEN [raised |-> FALSE, out |-> TopK(cands, EmptyLimit)]
            ELSE [raised |-> FALSE, out |-> final]

\* mutant: an empty filtered list is returned as it is
RerankResponse_KeepEmpty(cands, out) ==
    IF out.kind # "json" THEN [raised |-> FALSE, out |-> TopK(cands, FailLimit)]
    ELSE IF NoLen(out.val) THEN [raised |-> FALSE, out |-> TopK(cands, FailLimit)]
    ELSE [raised |-> FALSE, out |-> FinalResults(cands, out.val.items)]

\* mutant: len(selected_ids) is evaluated outside the try block
RerankResponse_LenUncaught(cands, out) ==
    IF out.kind # "json" THEN [raised |-> FALSE, out |-> TopK(cands, FailLimit)]
    ELSE IF NoLen(out.val) THEN [raised |-> TRUE, out |-> <<>>]
    ELSE LET final == FinalResults(cands, out.val.items)
         IN IF final = <<>>
            THEN [raised |-> FALSE, out |-> TopK(cands, EmptyLimit)]
            ELSE [raised |-> FALSE, out |-> final]

\* the try block: the model's outcome to rerank's return value
RerankResponse(cands, out) ==
    IF out.kind # "json" THEN [raised |-> FALSE, out |-> TopK(cands, FailLimit)]
    ELSE IF NoLen(out.val) THEN [raised |-> FALSE, out |-> TopK(cands, FailLimit)]
    ELSE LET final == FinalResults(cands, out.val.items)
         IN IF final = <<>>
            THEN [raised |-> FALSE, out |-> TopK(cands, EmptyLimit)]
            ELSE [raised |-> FALSE, out |-> final]

----------------------------------------------------------------------------
(* recommend *)

PipeInit ==
    /\ hasModel \in BOOLEAN
    /\ pc = "idle"
    /\ query = 0
    /\ storeOut = NoStore
    /\ candidates = <<>>
    /\ llmOut = NoLlm
    /\ result = <<>>
    /\ status = "none"
    /\ dbCalls = 0
    /\ llmCalls = 0

NormIdle ==
    /\ normOp = "none"
    /\ normIn = AbsentV
    /\ ynOut = "none"
    /\ durOut = 0
    /\ ttOut = <<>>

\* no request is being served concurrently
ConcIdle == reqs = <<>>

Init == PipeInit /\ NormIdle /\ ConcIdle

\* a POST /recommend arrives; the previous request's locals are gone
Receive ==
    /\ pc \in {"idle", "done"}
    /\ \E q \in Queries : query' = q
    /\ pc' = "retrieve"
    /\ storeOut' = NoStore
    /\ candidates' = <<>>
    /\ llmOut' = NoLlm
    /\ result' = <<>>
    /\ status' = "none"
    /\ dbCalls' = 0
    /\ llmCalls' = 0
    /\ UNCHANGED <<hasModel, normOp, normIn, ynOut, durOut, ttOut, reqs>>

\* candidates = get_candidates_from_db(request.query, k=25)
Retrieve ==
    /\ pc = "retrieve"
    /\ \E so \in StoreOutcomes(query, K) :
          LET r == get_candidates_from_db(so)
          IN /\ storeOut' = so
             /\ dbCalls' = dbCalls + 1
             /\ IF r.raised
                THEN /\ pc' = "done"
                     /\ status' = "error"
                     /\ candidates' = <<>>
                ELSE /\ pc' = "rerank"
                     /\ status' = status
                     /\ candidates' = r.cands
    /\ UNCHANGED <<hasModel, query, llmOut, result, llmCalls,
                   normOp, normIn, ynOut, durOut, ttOut, reqs>>

\* rerank_with_gemini up to the point where it blocks in generate_content
RerankCall ==
    /\ pc = "rerank"
    /\ LET e == RerankEntry(candidates, hasModel)
       IN CASE e = "empty" ->
                 /\ result' = <<>>
                 /\ pc' = "done"
                 /\ status' = "ok"
                 /\ llmCalls' = llmCalls
            [] e = "nomodel" ->
                 /\ result' = TopK(candidates, NoModelLimit)
                 /\ pc' = "done"
                 /\ status' = "ok"
                 /\ llmCalls' = llmCalls
            [] OTHER ->
                 /\ result' = result
                 /\ pc' = "await"
                 /\ status' = status
                 /\ llmCalls' = llmCalls + 1
    /\ UNCHANGED <<hasModel, query, storeOut, candidates, llmOut, dbCalls,
                   normOp, normIn, ynOut, durOut, ttOut, reqs>>

\* mutant: a failed model call is issued once more before falling back
RerankReturn_Retry ==
    /\ pc = "await"
    /\ \E o \in LlmOutcomes :
          LET r == RerankResponse(candidates, o)
          IN /\ llmOut' = o
             /\ IF o.kind # "json" /\ llmCalls < 2
                THEN /\ pc' = "rerank"
                     /\ status' = status
                     /\ result' = result
                ELSE /\ pc' = "done"
                     /\ status' = "ok"
                     /\ result' = r.out
    /\ UNCHANGED <<hasModel, query, storeOut, candidates, dbCalls, llmCalls,
                   normOp, normIn, ynOut, durOut, ttOut, reqs>>

\* mutant: an expired wait is resumed instead of handled, so a model that
\* never responds leaves the request waiting for ever
RerankReturn_WaitAgain ==
    /\ pc = "await"
    /\ \E o \in LlmOutcomes :
          LET r == RerankResponse(candidates, o)
          IN /\ llmOut' = o
             /\ IF o.kind = "timeout"
                THEN /\ pc' = "hung"
                     /\ status' = status
                     /\ result' = result
                ELSE /\ pc' = "done"
                     /\ status' = "ok"
                     /\ result' = r.out
    /\ UNCHANGED <<hasModel, query, storeOut, candidates, dbCalls, llmCalls,
                   normOp, normIn, ynOut, durOut, ttOut, reqs>>

\* generate_content returns or raises; rerank and then recommend return
RerankReturn ==
    /\ pc = "await"
    /\ \E o \in LlmOutcomes :
          LET r == RerankResponse(candidates, o)
          IN /\ llmOut' = o
             /\ pc' = "done"
             /\ IF r.raised
                THEN /\ status' = "error"
                     /\ result' = <<>>
                ELSE /\ status' = "ok"
                     /\ result' = r.out
    /\ UNCHANGED <<hasModel, query, storeOut, candidates, dbCalls, llmCalls,
                   normOp, normIn, ynOut, durOut, ttOut, reqs>>

----------------------------------------------------------------------------
(* The normalizers applied to raw metadata values *)

Chars(S, n) == {StrV(x) : x \in SeqsUpTo(S, n)}

NonStrings ==
    {NoneV, AbsentV, BoolV(0), BoolV(1), IntV(0), IntV(1), IntV(49), IntV(60),
     FloatV(0), FloatV(60), FloatV(99)}

YesNoTexts ==
    {<<"Y", "e", "s">>, <<"y", "e", "s">>, <<"Y", "E", "S">>,
     <<"N", "o">>, <<"n", "o">>, <<"N", "O">>,
     <<"S", "u", "p", "p", "o", "r", "t", "e", "d">>,
     <<"s", "u", "p", "p", "o", "r", "t", "e", "d">>,
     <<"N", "o", "t", " ", "S", "u", "p", "p", "o", "r", "t", "e", "d">>,
     <<"n", "o", "t", " ", "s", "u", "p", "p", "o", "r", "t", "e", "d">>,
     <<"N", "O", "T", " ", "S", "U", "P", "P", "O", "R", "T", "E", "D">>,
     <<GreenCircle>>, <<RedCircle>>, <<"?">>,
     <<"m", "a", "y", "b", "e">>, <<"n", "/", "a">>,
     <<"u", "n", "k", "n", "o", "w", "n">>}

\* arguments of normalize_yes_no
YesNoInputs ==
    NonStrings
    \cup {StrV(x) : x \in YesNoTexts}
    \cup Chars({"y", "e", "s", "n", "o", "N", GreenCircle, RedCircle}, MaxStrLen)

DurationTexts ==
    {<<"A", "p", "p", "r", "o", "x", "i", "m", "a", "t", "e", " ",
       "C", "o", "m", "p", "l", "e", "t", "i", "o", "n", " ",
       "T", "i", "m", "e", " ", "i", "n", " ",
       "m", "i", "n", "u", "t", "e", "s", " ", "=", " ", "4", "9">>,
     <<"m", "a", "x", " ", "3", "0", " ", "t", "o", " ", "4", "5">>,
     <<"N", "/", "A">>, <<"4", "9", ".", "5">>, <<" ", "4", "9", " ">>}

\* values of a raw duration field
DurationInputs ==
    NonStrings
    \cup {StrV(x) : x \in DurationTexts}
    \cup Chars({"4", "9", "0", "m", " ", "."}, MaxStrLen)

TestTypeTexts ==
    {<<"K", "n", "o", "w", "l", "e", "d", "g", "e", ",", " ",
       "P", "e", "r", "s", "o", "n", "a", "l", "i", "t", "y">>,
     Unknown}

TestTypeLists ==
    {<<>>, <<<<"K">>>>, <<<<"P">>, <<"K">>>>, <<Unknown>>}

\* values of a raw test_type field
TestTypeInputs ==
    NonStrings
    \cup {StrV(x) : x \in TestTypeTexts}
    \cup {ListV(x) : x \in TestTypeLists}
    \cup Chars({"K", "P", ",", " "}, MaxStrLen)

\* a raw metadata value is about to be normalized
NormInit ==
    /\ PipeInit
    /\ normOp = "none"
    /\ normIn \in YesNoInputs \cup DurationInputs \cup TestTypeInputs
    /\ ynOut = "none"
    /\ durOut = 0
    /\ ttOut = <<>>
    /\ ConcIdle

\* test.py:61,64  normalize_yes_no(item.get(key, ""))
NormalizeYesNo ==
    /\ normOp = "none"
    /\ normIn \in YesNoInputs
    /\ ynOut' = normalize_yes_no(IF normIn.t = "absent" THEN StrV(<<>>) ELSE normIn)
    /\ normOp' = "normalize_yes_no"
    /\ UNCHANGED <<normIn, durOut, ttOut>>
    /\ UNCHANGED <<pipeVars, reqs>>

\* test.py:57  clean_duration(item.get("duration", ""))
CleanDuration ==
    /\ normOp = "none"
    /\ normIn \in DurationInputs
    /\ durOut' = clean_duration(IF normIn.t = "absent" THEN StrV(<<>>) ELSE normIn)
    /\ normOp' = "clean_duration"
    /\ UNCHANGED <<normIn, ynOut, ttOut>>
    /\ UNCHANGED <<pipeVars, reqs>>

\* api.py:72-76  the cast applied to meta.get('duration', 0)
ApiDuration ==
    /\ normOp = "none"
    /\ normIn \in DurationInputs
    /\ durOut' = ApiDurationCast(normIn)
    /\ normOp' = "api_duration"
    /\ UNCHANGED <<normIn, ynOut, ttOut>>
    /\ UNCHANGED <<pipeVars, reqs>>

\* test.py:66-71  the test_type list of a cleaned record
CleanTestType ==
    /\ normOp = "none"
    /\ normIn \in TestTypeInputs
    /\ ttOut' = CleanTestTypes(normIn)
    /\ normOp' = "clean_test_type"
    /\ UNCHANGED <<normIn, ynOut, durOut>>
    /\ UNCHANGED <<pipeVars, reqs>>

\* api.py:65-70  the test_type list of a candidate
ApiTestType ==
    /\ normOp = "none"
    /\ normIn \in TestTypeInputs
    /\ ttOut' = ApiTestTypes(normIn)
    /\ normOp' = "api_test_type"
    /\ UNCHANGED <<normIn, ynOut, durOut>>
    /\ UNCHANGED <<pipeVars, reqs>>

NormNext ==
    NormalizeYesNo \/ CleanDuration \/ ApiDuration \/ CleanTestType \/ ApiTestType

SpecNorm == NormInit /\ [][NormNext]_vars

Next == Receive \/ Retrieve \/ RerankCall \/ RerankReturn

\* a request that has been received runs on: the store query and the code
\* around it return, and the model call returns or raises, at the latest
\* when the client's deadline expires (the "timeout" outcome); nothing
\* obliges a further request to arrive.  At the control points of a running
\* request the steps of Next are exactly those of Retrieve, RerankCall and
\* RerankReturn, each is always possible there and each leaves the point,
\* so the fairness of the three actions is stated on the control point.
Proceeds(from, to) == pc = from /\ pc' \in to

Fairness ==
    /\ WF_pc(Proceeds("retrieve", {"rerank", "done"}))
    /\ WF_pc(Proceeds("rerank", {"await", "done"}))
    /\ WF_pc(Proceeds("await", {"done"}))

SpecLive == Init /\ [][Next]_vars /\ Fairness

----------------------------------------------------------------------------
(* Two /recommend requests served at once *)

\* recommend() is a coroutine without an await in it, so the event loop runs
\* one request to its end before the next; the steps below may interleave in
\* any order, which also covers a server that runs the handler on threads.
\* Each request has its own frame: query, candidates, ranked_assessments.
\* The module globals model and collection are only read.
ReqIds == {1, 2}

IdleReq ==
    [pc |-> "idle", query |-> 0, storeOut |-> NoStore, candidates |-> <<>>,
     llmOut |-> NoLlm, result |-> <<>>, status |-> "none"]

ConcStoreOutcomes(q) ==
    {so \in StoreOutcomes(q, K) :
        /\ Len(so.hits) <= ConcMaxHits
        /\ \A i \in 1..Len(so.hits) : so.hits[i].shape \in {"ok", "meta_none"}}

ConcLlmOutcomes ==
    {o \in LlmOutcomes :
        \/ o.kind \in {"raise", "nonjson"}
        \/ o.kind = "json" /\ o.val.t = "number"
        \/ o.kind = "json" /\ o.val.t = "array"
              /\ o.val.items \in {<<>>, <<Elem("int", 0)>>, <<Elem("int", MaxHits)>>,
                                  <<Elem("int", 1), Elem("int", 0)>>}}

ConcInit ==
    /\ PipeInit
    /\ NormIdle
    /\ reqs = [r \in ReqIds |-> IdleReq]

ConcReceive(r) ==
    /\ reqs[r].pc \in {"idle", "done"}
    /\ \E q \in Queries :
          reqs' = [reqs EXCEPT ![r] = [IdleReq EXCEPT !.pc = "retrieve", !.query = q]]
    /\ UNCHANGED <<pipeVars, normVars>>

\* mutant: the batch is kept in a module global that every request reads
ConcRetrieve_SharedBatch(r) ==
    /\ reqs[r].pc = "retrieve"
    /\ \E so \in ConcStoreOutcomes(reqs[r].query) :
          LET got == get_candidates_from_db(so)
          IN reqs' = [x \in ReqIds |->
                        IF x = r
                        THEN [reqs[r] EXCEPT !.storeOut = so, !.pc = "rerank",
                                             !.candidates = got.cands]
                        ELSE [reqs[x] EXCEPT !.candidates = got.cands]]
    /\ UNCHANGED <<pipeVars, normVars>>

ConcRetrieve(r) ==
    /\ reqs[r].pc = "retrieve"
    /\ \E so \in ConcStoreOutcomes(reqs[r].query) :
          LET got == get_candidates_from_db(so)
          IN reqs' = [reqs EXCEPT ![r] =
                        IF got.raised
                        THEN [@ EXCEPT !.storeOut = so, !.pc = "done", !.status = "error"]
                        ELSE [@ EXCEPT !.storeOut = so, !.pc = "rerank",
                                       !.candidates = got.cands]]
    /\ UNCHANGED <<pipeVars, normVars>>

ConcRerankCall(r) ==
    /\ reqs[r].pc = "rerank"
    /\ LET e == RerankEntry(reqs[r].candidates, hasModel)
       IN reqs' = [reqs EXCEPT ![r] =
                     CASE e = "empty" ->
                            [@ EXCEPT !.result = <<>>, !.pc = "done", !.status = "ok"]
                       [] e = "nomodel" ->
                            [@ EXCEPT !.result = TopK(reqs[r].candidates, NoModelLimit),
                                      !.pc = "done", !.status = "ok"]
                       [] OTHER -> [@ EXCEPT !.pc = "await"]]
    /\ UNCHANGED <<pipeVars, normVars>>

ConcRerankReturn(r) ==
    /\ reqs[r].pc = "await"
    /\ \E o \in ConcLlmOutcomes :
          LET got == RerankResponse(reqs[r].candidates, o)
          IN reqs' = [reqs EXCEPT ![r] =
                        IF got.raised
                        THEN [@ EXCEPT !.llmOut = o, !.pc = "done", !.status = "error"]
                        ELSE [@ EXCEPT !.llmOut = o, !.pc = "done", !.status = "ok",
                                       !.result = got.out]]
    /\ UNCHANGED <<pipeVars, normVars>>

ConcNext ==
    \E r \in ReqIds :
        ConcReceive(r) \/ ConcRetrieve(r) \/ ConcRerankCall(r) \/ ConcRerankReturn(r)

SpecConc == ConcInit /\ [][ConcNext]_vars

Spec == Init /\ [][Next]_vars

----------------------------------------------------------------------------
(* The fallback policy as the specification states it *)

Records(cands) == [i \in 1..Len(cands) |-> cands[i].raw_data]

\* the first min(k, n) records in retrieval order
FirstRecords(cands, k) ==
    SubSeq(Records(cands), 1, IF Len(cands) < k THEN Len(cands) ELSE k)

Done == pc = "done"

\* the localId an element of the model's array names: Python compares the
\* element with the integer ids by value, so 1, 1.0 and true all name id 1;
\* -1 stands for an element that names no id (1.5, "1", null)
IdOf(e) ==
    IF e.t \in {"int", "bool"} THEN e.v
    ELSE IF e.t = "float" /\ e.v % 2 = 0 THEN e.v \div 2
    ELSE -1

InBatch(e) == IdOf(e) \in 0..(Len(candidates) - 1)

ParsedArray == llmOut.kind = "json" /\ llmOut.val.t = "array"

\* the surviving elements in the model's order, each mapped to the record
\* of the candidate holding that localId (localId i is the hit at i+1)
Selection ==
    LET kept == SelectSeq(llmOut.val.items, InBatch)
    IN [j \in 1..Len(kept) |-> candidates[IdOf(kept[j]) + 1].raw_data]

\* no client, or the call raised, timed out or returned text that is not JSON
ModelFailed == ~hasModel \/ llmOut.kind \in {"raise", "timeout", "nonjson"}

\* C1: on a non-empty batch of n candidates, when there is no model client or
\* the call raises, times out or returns unparsable text, the request ends
\* with exactly the first min(10, n) records in retrieval order.
C1_FailureFallsBackToFirstTen ==
    (Done /\ candidates # <<>> /\ ModelFailed)
        => (status = "ok" /\ result = FirstRecords(candidates, 10))

C1_Witness ==
    /\ Done
    /\ Len(candidates) = 11
    /\ llmOut.kind = "timeout"
    /\ Len(result) = 10

\* C2: on a non-empty batch, when the response parses to an array none of
\* whose elements names a localId of the batch (the empty array included),
\* the request ends with exactly the first min(5, n) records.
C2_NoValidIdFallsBackToFirstFive ==
    (Done /\ candidates # <<>> /\ ParsedArray
          /\ \A e \in Range(llmOut.val.items) : ~InBatch(e))
        => (status = "ok" /\ result = FirstRecords(candidates, 5))

C2_Witness ==
    /\ Done
    /\ Len(candidates) = 7
    /\ ParsedArray
    /\ llmOut.val.items = <<Elem("int", MaxHits), Elem("int", -1)>>
    /\ Len(result) = 5

\* C3: when the array names at least one localId of the batch, the result is
\* the records of exactly the named ids, in the order the model listed them,
\* with the other elements dropped and no fallback.
C3_ValidIdsKeepModelOrder ==
    (Done /\ candidates # <<>> /\ ParsedArray
          /\ \E e \in Range(llmOut.val.items) : InBatch(e))
        => (status = "ok" /\ result = Selection)

C3_Witness ==
    /\ Done
    /\ Len(candidates) = 3
    /\ ParsedArray
    /\ llmOut.val.items = <<Elem("int", 1), Elem("int", MaxHits), Elem("int", 0)>>
    /\ result = <<candidates[2].raw_data, candidates[1].raw_data>>

\* C4: when retrieval yields no candidate, the request returns an empty
\* result and never calls the model.
C4_EmptyBatchSkipsModel ==
    (storeOut.kind # "none" /\ candidates = <<>>)
        => /\ llmCalls = 0
           /\ pc # "await"
           /\ result = <<>>
           /\ (Done => status = "ok")

C4_Witness ==
    /\ Done
    /\ hasModel
    /\ storeOut.kind = "hits"
    /\ storeOut.hits = <<>>
    /\ result = <<>>
    /\ llmCalls = 0

\* the part of C5 that holds as stated: one store query and at most one
\* model call per request, the model call only after retrieval has returned
CallsAtMostOnce ==
    /\ dbCalls <= 1
    /\ llmCalls <= 1
    /\ (llmCalls > 0 => (dbCalls = 1 /\ storeOut.kind # "none"
                           /\ pc \in {"await", "done"}))

\* C5 as stated: at most one store query and one model call per request, the
\* model call after retrieval, and every rerank of a non-empty batch makes
\* exactly one model call.
C5_ExactlyOneCallPerRerank ==
    /\ CallsAtMostOnce
    /\ ((Done /\ candidates # <<>>) => llmCalls = 1)

\* C5 amended: as above, except that a rerank of a non-empty batch makes
\* exactly one model call when a model client is configured and none when
\* there is no client.
C5_OneCallWhenModelConfigured ==
    /\ CallsAtMostOnce
    /\ ((Done /\ candidates # <<>>) => llmCalls = (IF hasModel THEN 1 ELSE 0))

C5_Witness ==
    /\ Done
    /\ hasModel
    /\ candidates # <<>>
    /\ llmOut.kind = "raise"
    /\ dbCalls = 1
    /\ llmCalls = 1

\* metadata the conversion of a hit cannot read
Malformed(h) == h.shape \in {"meta_none", "desc_not_str", "doc_none"}

RetrievalFailed ==
    \/ storeOut.kind = "raise"
    \/ \E i \in 1..Len(storeOut.hits) : Malformed(storeOut.hits[i])

\* C6: when the store query raises or a hit carries metadata the conversion
\* cannot read, retrieval returns no candidate at all (not the hits converted
\* so far) and the request completes successfully with an empty list.
C6_RetrievalFailsSoft ==
    RetrievalFailed
        => /\ candidates = <<>>
           /\ status # "error"
           /\ pc \in {"rerank", "done"}
           /\ (Done => (status = "ok" /\ result = <<>>))

C6_Witness ==
    /\ Done
    /\ storeOut.kind = "hits"
    /\ Len(storeOut.hits) = 4
    /\ storeOut.hits[3].shape = "meta_none"
    /\ status = "ok"
    /\ result = <<>>

\* C7: whatever the model does (exception, non-JSON text, JSON that is not
\* an array, an array with non-integer elements), rerank returns a list that
\* is one of the three tiers: the first 10, the first 5, or the non-empty
\* selection of valid ids.
C7_RerankAlwaysReturnsATier ==
    (Done /\ candidates # <<>>)
        => /\ status = "ok"
           /\ \/ result = FirstRecords(candidates, 10)
              \/ result = FirstRecords(candidates, 5)
              \/ (ParsedArray /\ result # <<>> /\ result = Selection)

C7_Witness ==
    /\ Done
    /\ Len(candidates) = 12
    /\ llmOut.kind = "json"
    /\ llmOut.val.t = "number"
    /\ status = "ok"
    /\ Len(result) = 10

\* C8: the result of a request never holds more than 10 items.
C8_AtMostTenItems == Len(result) <= 10

C8_ElevenItems ==
    /\ Done
    /\ Len(candidates) = 11
    /\ llmOut.val.items = Ascending(0, 10)
    /\ Len(result) = 11

----------------------------------------------------------------------------
(* The normalization policy as the specification states it *)

Text(v) == IF v.t = "str" THEN ToLower(v.s) ELSE <<>>

NegativeMarkers ==
    {<<"n", "o">>,
     <<"n", "o", "t", " ", "s", "u", "p", "p", "o", "r", "t", "e", "d">>,
     <<RedCircle>>}

AffirmativeMarkers ==
    {<<"y", "e", "s">>,
     <<"s", "u", "p", "p", "o", "r", "t", "e", "d">>,
     <<GreenCircle>>}

\* C9: a value that is a negative marker in any letter case normalizes to
\* "No"; so does an empty value and a value holding no affirmative marker;
\* the output is always "Yes" or "No".
C9_YesNoFailClosed ==
    normOp = "normalize_yes_no"
        => /\ ynOut \in {"Yes", "No"}
           /\ (normIn.t = "str" /\ Text(normIn) \in NegativeMarkers => ynOut = "No")
           /\ (Falsy(normIn) => ynOut = "No")
           /\ (normIn.t = "str"
                 /\ (\A m \in AffirmativeMarkers : ~Contains(Text(normIn), m))
               => ynOut = "No")

\* the code reaches "Not Supported" and answers "Yes"
C9_NotSupportedIsYes ==
    /\ normOp = "normalize_yes_no"
    /\ normIn = StrV(<<"N", "o", "t", " ", "S", "u", "p", "p", "o", "r", "t", "e", "d">>)
    /\ ynOut = "Yes"

\* the first integer substring of s, read left to right: acc is the value of
\* the digits read so far and started says whether a digit has been read
RECURSIVE ScanInteger(_, _, _)
ScanInteger(s, acc, started) ==
    IF s = <<>> THEN acc
    ELSE IF IsDigit(Head(s)) THEN ScanInteger(Tail(s), 10 * acc + DigitVal(Head(s)), TRUE)
    ELSE IF started THEN acc
    ELSE ScanInteger(Tail(s), 0, FALSE)

HasDigit(s) == \E i \in 1..Len(s) : IsDigit(s[i])

\* C10: duration normalization gives the first integer substring of a text,
\* the integer value of a number, 0 for an absent value or a text without
\* digits, and never a negative result.
C10_DurationNormalization ==
    normOp \in {"clean_duration", "api_duration"}
        => /\ durOut >= 0
           /\ (normIn.t = "str" /\ HasDigit(normIn.s)
                 => durOut = ScanInteger(normIn.s, 0, FALSE))
           /\ (normIn.t = "int" => durOut = normIn.v)
           /\ (normIn.t = "float" => durOut = normIn.v \div 2)
           /\ ((normIn.t \in {"absent", "none"} \/ (normIn.t = "str" /\ ~HasDigit(normIn.s)))
                 => durOut = 0)

\* clean_duration is handed the number 49 and answers 0
C10_NumberBecomesZero ==
    /\ normOp = "clean_duration"
    /\ normIn = IntV(49)
    /\ durOut = 0

\* the api.py cast is handed the catalog's duration text and answers 0
C10_TextBecomesZero ==
    /\ normOp = "api_duration"
    /\ normIn.t = "str"
    /\ Len(normIn.s) > 40
    /\ ScanInteger(normIn.s, 0, FALSE) = 49
    /\ durOut = 0

\* the pieces of s between its commas, read left to right: cur is the
\* piece being read
RECURSIVE Pieces(_, _)
Pieces(s, cur) ==
    IF s = <<>> THEN <<Strip(cur)>>
    ELSE IF Head(s) = "," THEN <<Strip(cur)>> \o Pieces(Tail(s), <<>>)
    ELSE Pieces(Tail(s), Append(cur, Head(s)))

EmptyTestType(v) ==
    \/ v.t \in {"absent", "none"}
    \/ v.t = "str" /\ v.s = <<>>
    \/ v.t = "list" /\ v.v = 0

\* C11: the test-type list is never empty: an absent value, an empty string
\* or an empty list becomes ["Unknown"], a comma-separated string is split
\* and trimmed in order, and a list passes through unchanged.
C11_TestTypesNeverEmpty ==
    normOp \in {"clean_test_type", "api_test_type"}
        => /\ ttOut # <<>>
           /\ (EmptyTestType(normIn) => ttOut = <<Unknown>>)
           /\ (normIn.t = "str" /\ normIn.s # <<>> => ttOut = Pieces(normIn.s, <<>>))
           /\ (normIn.t = "list" /\ normIn.v > 0
                 => (Len(ttOut) = normIn.v /\ Joined(ttOut) = normIn.s))

\* a candidate built from metadata without test_type has an empty list
C11_AbsentGivesEmptyList ==
    /\ normOp = "api_test_type"
    /\ normIn = AbsentV
    /\ ttOut = <<>>

\* cleaning passes an empty list through
C11_EmptyListStaysEmpty ==
    /\ normOp = "clean_test_type"
    /\ normIn = ListV(<<>>)
    /\ ttOut = <<>>

----------------------------------------------------------------------------
(* The response schema as the specification states it *)

YesOrNo == {<<"Y", "e", "s">>, <<"N", "o">>}

\* the hit a record of the response was built from
HitOf(item) ==
    CHOOSE h \in Range(storeOut.hits) : h.doc = item.assessment_name

\* C12: every item of a response has adaptive-support and remote-support
\* values that are exactly "Yes" or "No", whatever shape the stored metadata
\* has, and a missing value appears as "No".
C12_SupportIsYesOrNo ==
    Done => \A i \in 1..Len(result) :
               /\ result[i].adaptive_support \in YesOrNo
               /\ result[i].remote_support \in YesOrNo
               /\ (HitOf(result[i]).adaptive_support.t = "absent"
                     => result[i].adaptive_support = <<"N", "o">>)
               /\ (HitOf(result[i]).remote_support.t = "absent"
                     => result[i].remote_support = <<"N", "o">>)

\* a stored boolean reaches the caller as the text "True"
C12_BooleanBecomesTrue ==
    /\ Done
    /\ status = "ok"
    /\ \E i \in 1..Len(result) :
          /\ HitOf(result[i]).adaptive_support = BoolV(1)
          /\ result[i].adaptive_support = <<"T", "r", "u", "e">>

----------------------------------------------------------------------------
(* Isolation of concurrent requests *)

\* what a request returns when it is the only one served: its own query's
\* store outcome converted, then reranked with its own model outcome
AloneResult(q) ==
    LET own == get_candidates_from_db(q.storeOut).cands
        e == RerankEntry(own, hasModel)
    IN IF e = "empty" THEN <<>>
       ELSE IF e = "nomodel" THEN TopK(own, NoModelLimit)
       ELSE RerankResponse(own, q.llmOut).out

\* the documents of the request's own retrieval batch
OwnDocs(q) == {q.storeOut.hits[i].doc : i \in 1..Len(q.storeOut.hits)}

IsolatedResults ==
    \A r \in ReqIds :
        reqs[r].pc = "done"
            => /\ reqs[r].status = "ok"
               /\ reqs[r].result = AloneResult(reqs[r])
               /\ \A i \in 1..Len(reqs[r].result) :
                     reqs[r].result[i].assessment_name \in OwnDocs(reqs[r])

\* a step of one request leaves the other request's state and the module
\* globals as they were
OwnStateOnly ==
    /\ hasModel' = hasModel
    /\ \E r \in ReqIds : \A o \in ReqIds \ {r} : reqs'[o] = reqs[o]

\* C13: under every interleaving of two requests, each request's result is
\* what it would be alone and holds only records of its own batch, and no
\* step of one request changes state the other request reads.
C13_RequestsDoNotInterfere == [](IsolatedResults) /\ [][OwnStateOnly]_vars

\* request 1 has finished with a reordered result while request 2, with
\* another query and another batch, still waits for the model
C13_Witness ==
    /\ reqs # <<>>
    /\ reqs[1].pc = "done"
    /\ reqs[1].query = 1
    /\ Len(reqs[1].candidates) = 2
    /\ reqs[1].result = <<reqs[1].candidates[2].raw_data, reqs[1].candidates[1].raw_data>>
    /\ reqs[2].pc = "await"
    /\ reqs[2].query = 2
    /\ Len(reqs[2].candidates) = 1

----------------------------------------------------------------------------
(* Completion *)

----------------------------------------------------------------------------
(* Non-empty and duplicate-free results *)

\* C15: whenever retrieval yields at least one candidate, the request ends
\* successfully with a non-empty result, whatever the model does (no client,
\* failure, empty array, only invalid ids, a valid selection).
C15_CandidatesGiveNonEmptyResult ==
    (Done /\ candidates # <<>>) => (status = "ok" /\ result # <<>>)

C15_Witness ==
    /\ Done
    /\ hasModel
    /\ Len(candidates) = 1
    /\ ParsedArray
    /\ llmOut.val.items = <<>>
    /\ result = <<candidates[1].raw_data>>

\* C16: the result holds no assessment record more than once, whatever the
\* model returned, also when its array lists the same localId several times.
C16_NoRecordTwice ==
    Done => \A i, j \in 1..Len(result) : i # j => result[i] # result[j]

C16_SameRecordTwice ==
    /\ Done
    /\ Len(candidates) = 2
    /\ ParsedArray
    /\ llmOut.val.items = Repeated(0, 2)
    /\ result = <<candidates[1].raw_data, candidates[1].raw_data>>

====
